---- MODULE Spec2Model ----
(***************************************************************************)
(* A model of the python-optimisation-skills examples: the set-backed      *)
(* rate limiter, the dict/Counter word counters, the defaultdict log       *)
(* grouping, the __slots__ record classes, the list- and dict-backed       *)
(* caches, the set-backed article tags, the order-preserving duplicate     *)
(* filter, and the run_all_examples.py runner.                             *)
(*                                                                         *)
(* The examples are independent of each other, so each one has its own     *)
(* specification (SpecDedupe, SpecTags, ...) over its own variables; the   *)
(* variables of the other examples stay at their idle values.              *)
(***************************************************************************)
EXTENDS Integers, Sequences, FiniteSets, TLC

VARIABLES
    \* 01_membership_testing.py (RateLimiterFast)
    blocked_ips,    \* RateLimiterFast.blocked_ips
    block_log,      \* the arguments of the block_ip calls so far, in call order
    is_blocked_arg, \* the argument of the last is_blocked call
    is_blocked_out, \* <<b>> when the last is_blocked call returned b, <<>> before
    \* 02_counting_and_grouping.py (count_words_fast, count_words_best)
    words,          \* the input list
    wi,             \* how many words the loop of count_words_fast has processed
    counts,         \* the local dict of count_words_fast
    counts_best,    \* what count_words_best(words) returned
    cpc,            \* "loop" | "returned"
    \* 02_counting_and_grouping.py (analyze_logs_fast, analyze_logs_alternative)
    log_entries,    \* the input list
    grouped_fast,   \* what analyze_logs_fast(log_entries) returned
    grouped_alt,    \* what analyze_logs_alternative(log_entries) returned
    gpc,            \* "input" | "done"
    \* 03_slots_optimization.py (PointOptimized, SensorReadingOptimized)
    cls,            \* the class of the last constructor call
    ctor_args,      \* its positional arguments
    inst,           \* the instance's attributes (name -> value), None before it exists
    rec_err,        \* the exception the last operation raised, None if it returned
    set_name,       \* the attribute name of the last assignment
    inst_before,    \* the instance's attributes before the last assignment
    rpc,            \* "new" | "built" | "failed"
    \* 04_container_selection.py, scenario 1 (duplicate removal)
    items,          \* the input list
    unique_out,     \* what remove_duplicates_fast(items) returned
    simple_out,     \* what remove_duplicates_simple(items) returned
    again_out,      \* what remove_duplicates_fast(unique_out) returned
    dpc,            \* "input" | "done" | "again"
    \* 04_container_selection.py, scenario 2 (ArticleFast)
    tag_list,       \* the list the article was constructed from
    tags,           \* ArticleFast.tags
    search_tags,    \* the argument of the last has_any_tags call
    has_any_out,    \* <<b>> when the last has_any_tags call returned b, <<>> before
    has_tag_arg,    \* the argument of the last has_tag call
    has_tag_out,    \* <<b>> when the last has_tag call returned b, <<>> before
    tpc,            \* "new" | "built"
    \* 04_container_selection.py, scenario 3 (ComputationCacheSlow / Fast)
    cache_slow,     \* ComputationCacheSlow.cache: a list of (key, value) tuples
    cache_fast,     \* ComputationCacheFast.cache: a dict
    set_log,        \* the (key, value) arguments of the set calls so far, in call order
    get_arg,        \* the key of the last get call
    get_slow_out,   \* <<r>> when ComputationCacheSlow.get ended as r for it, <<>> before
    get_fast_out,   \* <<r>> when ComputationCacheFast.get ended as r for it, <<>> before
    \* run_all_examples.py
    dir_files,      \* the file names in the examples directory
    example_files,  \* main's local list
    next_idx,       \* the position of the for loop in example_files
    ran,            \* the files run_example has executed, in order
    reported,       \* the files whose error was printed
    outcomes,       \* how each executed file ended, in order
    summary,        \* whether "All examples completed!" has been printed
    empty_msg,      \* whether "No example files found!" has been printed
    mpc             \* "start" | "loop" | "done" | "aborted"

regVars    == <<blocked_ips, block_log, is_blocked_arg, is_blocked_out>>
countVars  == <<words, wi, counts, counts_best, cpc>>
groupVars  == <<log_entries, grouped_fast, grouped_alt, gpc>>
recVars    == <<cls, ctor_args, inst, rec_err, set_name, inst_before, rpc>>
dedupeVars == <<items, unique_out, simple_out, again_out, dpc>>
tagVars    == <<tag_list, tags, search_tags, has_any_out, has_tag_arg, has_tag_out, tpc>>
cacheVars  == <<cache_slow, cache_fast, set_log, get_arg, get_slow_out, get_fast_out>>
runVars    == <<dir_files, example_files, next_idx, ran, reported, outcomes, summary,
                empty_msg, mpc>>
vars       == <<regVars, countVars, groupVars, recVars, dedupeVars, tagVars, cacheVars,
                runVars>>

\* Python's None
None == "None"

\* Bounds of the model
MaxLen == 5     \* longest input list of the duplicate filter
MaxVal == 3     \* its items are 1..MaxVal

SeqsUpTo(S, n) == UNION {[1..k -> S] : k \in 0..n}

\* set(xs) of a Python list
ToSet(xs) == {xs[i] : i \in 1..Len(xs)}

(***************************************************************************)
(* The idle values of each example's variables                             *)
(***************************************************************************)

RegIdle ==
    /\ blocked_ips = {} /\ block_log = <<>> /\ is_blocked_arg = None
    /\ is_blocked_out = <<>>

CountIdle ==
    /\ words = <<>> /\ wi = 0 /\ counts = <<>> /\ counts_best = None /\ cpc = "idle"

GroupIdle ==
    /\ log_entries = <<>> /\ grouped_fast = None /\ grouped_alt = None /\ gpc = "idle"

RecIdle ==
    /\ cls = None /\ ctor_args = <<>> /\ inst = None /\ rec_err = None
    /\ set_name = None /\ inst_before = None /\ rpc = "idle"

DedupeIdle ==
    /\ items = <<>> /\ unique_out = None /\ simple_out = None
    /\ again_out = None /\ dpc = "idle"

TagIdle ==
    /\ tag_list = <<>> /\ tags = {} /\ search_tags = <<>> /\ has_any_out = <<>>
    /\ has_tag_arg = None /\ has_tag_out = <<>> /\ tpc = "idle"

CacheIdle ==
    /\ cache_slow = <<>> /\ cache_fast = <<>> /\ set_log = <<>> /\ get_arg = None
    /\ get_slow_out = <<>> /\ get_fast_out = <<>>

RunIdle ==
    /\ dir_files = {} /\ example_files = <<>> /\ next_idx = 0 /\ ran = <<>>
    /\ reported = <<>> /\ outcomes = <<>> /\ summary = FALSE /\ empty_msg = FALSE
    /\ mpc = "idle"

(***************************************************************************)
(* remove_duplicates_fast / remove_duplicates_simple                       *)
(***************************************************************************)

\* a loop body that forgets seen.add(item)
rdf_body_noadd(seen, unique, item) ==
    IF item \notin seen THEN <<seen, Append(unique, item)>> ELSE <<seen, unique>>

\* a loop body that inserts at the front instead of appending
rdf_body_prepend(seen, unique, item) ==
    IF item \notin seen
    THEN <<seen \cup {item}, <<item>> \o unique>>
    ELSE <<seen, unique>>

\* lines 27-29: one iteration of the loop, on the pair (seen, unique)
rdf_body(seen, unique, item) ==
    IF item \notin seen
    THEN <<seen \cup {item}, Append(unique, item)>>
    ELSE <<seen, unique>>

RECURSIVE rdf_loop(_, _, _, _)
\* line 26: for item in items, from index i on
rdf_loop(xs, i, seen, unique) ==
    IF i > Len(xs) THEN unique
    ELSE LET r == rdf_body(seen, unique, xs[i])
         IN  rdf_loop(xs, i + 1, r[1], r[2])

remove_duplicates_fast(xs) == rdf_loop(xs, 1, {}, <<>>)

remove_duplicates_simple(xs) == ToSet(xs)

DedupeInit ==
    /\ items \in SeqsUpTo(1..MaxVal, MaxLen)
    /\ unique_out = None /\ simple_out = None /\ again_out = None
    /\ dpc = "input"

\* the caller runs both filters on the same input
DedupeCall ==
    /\ dpc = "input"
    /\ unique_out' = remove_duplicates_fast(items)
    /\ simple_out' = remove_duplicates_simple(items)
    /\ dpc' = "done"
    /\ UNCHANGED <<items, again_out>>
    /\ UNCHANGED <<regVars, countVars, groupVars, recVars, tagVars, cacheVars, runVars>>

\* the caller feeds the ordered result back in
DedupeAgain ==
    /\ dpc = "done"
    /\ again_out' = remove_duplicates_fast(unique_out)
    /\ dpc' = "again"
    /\ UNCHANGED <<items, unique_out, simple_out>>
    /\ UNCHANGED <<regVars, countVars, groupVars, recVars, tagVars, cacheVars, runVars>>

InitDedupe ==
    /\ DedupeInit
    /\ RegIdle /\ CountIdle /\ GroupIdle /\ RecIdle /\ TagIdle /\ CacheIdle /\ RunIdle
NextDedupe == DedupeCall \/ DedupeAgain
SpecDedupe == InitDedupe /\ [][NextDedupe]_vars

\* the position of the first occurrence of x in xs
FirstIndex(xs, x) ==
    CHOOSE i \in 1..Len(xs) : xs[i] = x /\ \A j \in 1..(i - 1) : xs[j] # x

\* C7: remove_duplicates_fast returns each distinct input element exactly once,
\* ordered by the position of its first occurrence in the input ([3,1,3,2,1]
\* gives [3,1,2]), and remove_duplicates_simple returns exactly the set of the
\* distinct input elements.
C7_DedupeFirstSeenOrder ==
    dpc \in {"done", "again"} =>
        /\ \A x \in 1..MaxVal :
              (\E i \in 1..Len(items) : items[i] = x)
                  <=> Cardinality({k \in 1..Len(unique_out) : unique_out[k] = x}) = 1
        /\ \A k \in 1..Len(unique_out) : unique_out[k] \in 1..MaxVal
        /\ \A k, l \in 1..Len(unique_out) :
              k < l => FirstIndex(items, unique_out[k]) < FirstIndex(items, unique_out[l])
        /\ simple_out = {x \in 1..MaxVal : \E i \in 1..Len(items) : items[i] = x}
        /\ (items = <<3, 1, 3, 2, 1>> => unique_out = <<3, 1, 2>> /\ simple_out = {1, 2, 3})

C7_Witness ==
    /\ dpc = "done"
    /\ items = <<3, 1, 3, 2, 1>>
    /\ unique_out = <<3, 1, 2>>
    /\ simple_out = {1, 2, 3}

\* C9: remove_duplicates_fast is idempotent: applied to its own output it
\* returns that output unchanged, same elements in the same order.
C9_DedupeIdempotent ==
    dpc = "again" => again_out = unique_out

C9_Witness ==
    /\ dpc = "again"
    /\ Len(unique_out) >= 2
    /\ Len(items) > Len(unique_out)
    /\ again_out = unique_out

(***************************************************************************)
(* ArticleFast                                                             *)
(***************************************************************************)

TagNames == {"tag5", "tag10", "python"}

MaxTags   == 3    \* longest tag list an article is constructed from
MaxSearch == 2    \* longest list passed to has_any_tags

\* line 64: self.tags = set(tags)   (the title plays no part in the tag methods)
ArticleFast_init(tag_arg) == ToSet(tag_arg)

\* line 67: tag in self.tags
has_tag(self_tags, tag) == tag \in self_tags

\* "has all" instead of "has any"
has_all_tags(self_tags, search_arg) == ToSet(search_arg) \subseteq self_tags

\* line 71: bool(self.tags & set(search_tags))
has_any_tags(self_tags, search_arg) == (self_tags \cap ToSet(search_arg)) # {}

TagInit ==
    /\ tag_list \in SeqsUpTo(TagNames, MaxTags)
    /\ tags = {} /\ search_tags = <<>> /\ has_any_out = <<>>
    /\ has_tag_arg = None /\ has_tag_out = <<>> /\ tpc = "new"

ArticleNew ==
    /\ tpc = "new"
    /\ tags' = ArticleFast_init(tag_list)
    /\ tpc' = "built"
    /\ UNCHANGED <<tag_list, search_tags, has_any_out, has_tag_arg, has_tag_out>>
    /\ UNCHANGED <<regVars, countVars, groupVars, recVars, dedupeVars, cacheVars, runVars>>

HasAnyTags ==
    /\ tpc = "built"
    /\ \E st \in SeqsUpTo(TagNames, MaxSearch) :
          /\ search_tags' = st
          /\ has_any_out' = <<has_any_tags(tags, st)>>
    /\ UNCHANGED <<tag_list, tags, has_tag_arg, has_tag_out, tpc>>
    /\ UNCHANGED <<regVars, countVars, groupVars, recVars, dedupeVars, cacheVars, runVars>>

HasTag ==
    /\ tpc = "built"
    /\ \E t \in TagNames :
          /\ has_tag_arg' = t
          /\ has_tag_out' = <<has_tag(tags, t)>>
    /\ UNCHANGED <<tag_list, tags, search_tags, has_any_out, tpc>>
    /\ UNCHANGED <<regVars, countVars, groupVars, recVars, dedupeVars, cacheVars, runVars>>

InitTags ==
    /\ TagInit
    /\ RegIdle /\ CountIdle /\ GroupIdle /\ RecIdle /\ DedupeIdle /\ CacheIdle /\ RunIdle
NextTags == ArticleNew \/ HasAnyTags \/ HasTag
SpecTags == InitTags /\ [][NextTags]_vars

\* C8: has_any_tags returns true iff the article's tags and the query have at
\* least one tag in common, false when they are disjoint (also when either is
\* empty), and an article constructed from a list with repeated tags answers
\* as the one constructed from the list without the repeats.
C8_HasAnyIffIntersect ==
    has_any_out # <<>> =>
        /\ has_any_out[1] \in BOOLEAN
        /\ has_any_out[1] <=>
              \E i \in 1..Len(tag_list), j \in 1..Len(search_tags) :
                  tag_list[i] = search_tags[j]
        /\ (tag_list = <<>> \/ search_tags = <<>>) => has_any_out[1] = FALSE
        /\ has_any_out[1] =
              has_any_tags(ArticleFast_init(remove_duplicates_fast(tag_list)), search_tags)

C8_Witness ==
    /\ has_any_out = <<TRUE>>
    /\ Len(tag_list) > Cardinality(tags)
    /\ \E j \in 1..Len(search_tags) : search_tags[j] \notin tags

(***************************************************************************)
(* RateLimiterFast                                                         *)
(***************************************************************************)

IPs == {"10.0.0.1", "10.0.0.2", "10.0.0.3"}

MaxBlocks == 4    \* block_ip calls in one run

\* line 44: ip_address in self.blocked_ips
is_blocked(self_blocked, ip) == ip \in self_blocked

\* an assignment of a new one-element set instead of an add
block_ip_replace(self_blocked, ip) == {ip}

\* line 47: self.blocked_ips.add(ip_address)
block_ip(self_blocked, ip) == self_blocked \cup {ip}

\* line 41: self.blocked_ips = set()
RegInit ==
    /\ blocked_ips = {} /\ block_log = <<>> /\ is_blocked_arg = None
    /\ is_blocked_out = <<>>

BlockIp ==
    /\ Len(block_log) < MaxBlocks
    /\ \E ip \in IPs :
          /\ blocked_ips' = block_ip(blocked_ips, ip)
          /\ block_log' = Append(block_log, ip)
    /\ UNCHANGED <<is_blocked_arg, is_blocked_out>>
    /\ UNCHANGED <<countVars, groupVars, recVars, dedupeVars, tagVars, cacheVars, runVars>>

IsBlocked ==
    /\ \E ip \in IPs :
          /\ is_blocked_arg' = ip
          /\ is_blocked_out' = <<is_blocked(blocked_ips, ip)>>
    /\ UNCHANGED <<blocked_ips, block_log>>
    /\ UNCHANGED <<countVars, groupVars, recVars, dedupeVars, tagVars, cacheVars, runVars>>

InitRegistry ==
    /\ RegInit
    /\ CountIdle /\ GroupIdle /\ RecIdle /\ DedupeIdle /\ TagIdle /\ CacheIdle /\ RunIdle
NextRegistry == BlockIp \/ IsBlocked
SpecRegistry == InitRegistry /\ [][NextRegistry]_vars

\* whether ip was passed to block_ip in the calls logged so far
WasBlocked(log, ip) == \E i \in 1..Len(log) : log[i] = ip

\* an is_blocked call answers whether its argument was blocked before it
C1_QueryStep ==
    (is_blocked_arg' # is_blocked_arg \/ is_blocked_out' # is_blocked_out) =>
        is_blocked_out' = <<WasBlocked(block_log, is_blocked_arg')>>

\* a block_ip call of an address that is already blocked changes neither the
\* answer for any address nor the size of the registry
C1_ReinsertStep ==
    (block_log' # block_log /\ WasBlocked(block_log, block_log'[Len(block_log')])) =>
        /\ \A ip \in IPs : is_blocked(blocked_ips', ip) = is_blocked(blocked_ips, ip)
        /\ Cardinality(blocked_ips') = Cardinality(blocked_ips)

CacheKeys   == {"k1", "k2"}
CacheValues == {None, "v1", "v2"}

MaxSets == 3    \* set calls in one run

\* how a call ended: the value it returned, or the exception it raised
Returned(v) == [exc |-> None, value |-> v]
Raised(e)   == [exc |-> e, value |-> None]

\* d[k] = v on a dict
DictPut(d, k, v) == [x \in DOMAIN d \cup {k} |-> IF x = k THEN v ELSE d[x]]

\* d.get(k, default) on a dict
DictGet(d, k, default) == IF k \in DOMAIN d THEN d[k] ELSE default

RECURSIVE slow_get_loop(_, _, _)
\* lines 83-86: for k, v in self.cache, from index i on
slow_get_loop(self_cache, i, key) ==
    IF i > Len(self_cache) THEN Returned(None)
    ELSE IF self_cache[i][1] = key THEN Returned(self_cache[i][2])
    ELSE slow_get_loop(self_cache, i + 1, key)

ComputationCacheSlow_get(self_cache, key) == slow_get_loop(self_cache, 1, key)

RECURSIVE slow_set_loop(_, _, _, _)
\* lines 90-94: for i, (k, v) in enumerate(self.cache), from index i on
slow_set_loop(self_cache, i, key, value) ==
    IF i > Len(self_cache) THEN Append(self_cache, <<key, value>>)
    ELSE IF self_cache[i][1] = key
         THEN [self_cache EXCEPT ![i] = <<key, value>>]
    ELSE slow_set_loop(self_cache, i + 1, key, value)

\* a set that appends without looking for the key
ComputationCacheSlow_set_append(self_cache, key, value) ==
    Append(self_cache, <<key, value>>)

ComputationCacheSlow_set(self_cache, key, value) ==
    slow_set_loop(self_cache, 1, key, value)

\* a get that subscripts the dict: self.cache[key]
ComputationCacheFast_get_subscript(self_cache, key) ==
    IF key \in DOMAIN self_cache THEN Returned(self_cache[key]) ELSE Raised("KeyError")

\* line 105: self.cache.get(key)
ComputationCacheFast_get(self_cache, key) == Returned(DictGet(self_cache, key, None))

\* line 108: self.cache[key] = value
ComputationCacheFast_set(self_cache, key, value) == DictPut(self_cache, key, value)

\* lines 80, 102: self.cache = [] and self.cache = {}
CacheInit ==
    /\ cache_slow = <<>> /\ cache_fast = <<>> /\ set_log = <<>> /\ get_arg = None
    /\ get_slow_out = <<>> /\ get_fast_out = <<>>

\* the caller makes the same set call on both caches
CacheSet ==
    /\ Len(set_log) < MaxSets
    /\ \E k \in CacheKeys, v \in CacheValues :
          /\ cache_slow' = ComputationCacheSlow_set(cache_slow, k, v)
          /\ cache_fast' = ComputationCacheFast_set(cache_fast, k, v)
          /\ set_log' = Append(set_log, <<k, v>>)
    /\ UNCHANGED <<get_arg, get_slow_out, get_fast_out>>
    /\ UNCHANGED <<regVars, countVars, groupVars, recVars, dedupeVars, tagVars, runVars>>

\* the caller makes the same get call on both caches
CacheGet ==
    /\ \E k \in CacheKeys :
          /\ get_arg' = k
          /\ get_slow_out' = <<ComputationCacheSlow_get(cache_slow, k)>>
          /\ get_fast_out' = <<ComputationCacheFast_get(cache_fast, k)>>
    /\ UNCHANGED <<cache_slow, cache_fast, set_log>>
    /\ UNCHANGED <<regVars, countVars, groupVars, recVars, dedupeVars, tagVars, runVars>>

InitCache ==
    /\ CacheInit
    /\ RegIdle /\ CountIdle /\ GroupIdle /\ RecIdle /\ DedupeIdle /\ TagIdle /\ RunIdle
NextCache == CacheSet \/ CacheGet
SpecCache == InitCache /\ [][NextCache]_vars

\* the positions of the set calls on key k in the log
SetsOn(log, k) == {i \in 1..Len(log) : log[i][1] = k}

\* what a get of key k has to return after the set calls in the log
Expected(log, k) ==
    IF SetsOn(log, k) = {} THEN None
    ELSE log[CHOOSE i \in SetsOn(log, k) : \A j \in SetsOn(log, k) : j <= i][2]

\* a get call returns, without raising, None when its key was never set and
\* the value of the last set on its key otherwise
C2_GetStep ==
    (get_arg' # get_arg \/ get_fast_out' # get_fast_out) =>
        get_fast_out' = <<[exc |-> None, value |-> Expected(set_log, get_arg')]>>

\* a set call on key k leaves what get returns for every other key unchanged
C2_SetStep ==
    set_log' # set_log =>
        \A k \in CacheKeys \ {set_log'[Len(set_log')][1]} :
            ComputationCacheFast_get(cache_fast', k) = ComputationCacheFast_get(cache_fast, k)

\* C2: ComputationCacheFast.get(k) returns None (the miss signal) without
\* raising when no set(k, _) has occurred, and otherwise the value of the most
\* recent set(k, v); a set on key k never changes what get returns for another
\* key.
C2_LastSetWins ==
    /\ [](\A k \in CacheKeys :
             ComputationCacheFast_get(cache_fast, k)
                 = [exc |-> None, value |-> Expected(set_log, k)])
    /\ [][C2_GetStep /\ C2_SetStep]_vars

C2_Witness ==
    /\ Len(set_log) >= 2
    /\ set_log[1][1] = set_log[2][1]
    /\ set_log[1][2] # set_log[2][2]
    /\ Len(set_log) = 2
    /\ get_arg = set_log[2][1]
    /\ get_fast_out = <<[exc |-> None, value |-> set_log[2][2]]>>
    /\ ComputationCacheFast_get(cache_fast, CHOOSE k \in CacheKeys : k # get_arg)
           = [exc |-> None, value |-> None]

\* C10: the same set and get calls applied to a ComputationCacheSlow and a
\* ComputationCacheFast give the same get results, and the slow cache's list
\* always holds at most one pair per key, its pairs being exactly the fast
\* cache's mapping.
C10_SlowFastEquivalent ==
    /\ get_slow_out = get_fast_out
    /\ \A k \in CacheKeys :
          ComputationCacheSlow_get(cache_slow, k) = ComputationCacheFast_get(cache_fast, k)
    /\ \A i, j \in 1..Len(cache_slow) : i # j => cache_slow[i][1] # cache_slow[j][1]
    /\ {cache_slow[i] : i \in 1..Len(cache_slow)}
           = {<<k, cache_fast[k]>> : k \in DOMAIN cache_fast}

C10_Witness ==
    /\ Len(set_log) = 3
    /\ Len(cache_slow) = 2
    /\ set_log[1][1] = set_log[3][1]
    /\ set_log[1][2] # set_log[3][2]
    /\ get_arg = set_log[1][1]
    /\ get_slow_out = <<[exc |-> None, value |-> set_log[3][2]]>>
    /\ get_fast_out = get_slow_out

(***************************************************************************)
(* count_words_fast / count_words_best                                     *)
(***************************************************************************)

WordSet == {"apple", "banana", "cherry"}

MaxWords == 4    \* longest input list of the word counters

\* a loop body whose default for a new word is 1
count_body_default1(cnt, word) == DictPut(cnt, word, DictGet(cnt, word, 1) + 1)

\* line 29: counts[word] = counts.get(word, 0) + 1
count_body(cnt, word) == DictPut(cnt, word, DictGet(cnt, word, 0) + 1)

RECURSIVE Counter_update(_, _, _)
\* collections.Counter(iterable): every element is counted into the mapping,
\* from index i on
Counter_update(cnt, xs, i) ==
    IF i > Len(xs) THEN cnt
    ELSE Counter_update(DictPut(cnt, xs[i], DictGet(cnt, xs[i], 0) + 1), xs, i + 1)

\* line 36: return Counter(words)
count_words_best(xs) == Counter_update(<<>>, xs, 1)

\* line 27: counts = {}
CountInit ==
    /\ words \in SeqsUpTo(WordSet, MaxWords)
    /\ wi = 0 /\ counts = <<>> /\ counts_best = None /\ cpc = "loop"

\* lines 28-29: one iteration of the loop of count_words_fast
CountStep ==
    /\ cpc = "loop"
    /\ wi < Len(words)
    /\ counts' = count_body(counts, words[wi + 1])
    /\ wi' = wi + 1
    /\ UNCHANGED <<words, counts_best, cpc>>
    /\ UNCHANGED <<regVars, groupVars, recVars, dedupeVars, tagVars, cacheVars, runVars>>

\* line 30: count_words_fast returns counts; the caller then calls
\* count_words_best on the same list
CountReturn ==
    /\ cpc = "loop"
    /\ wi = Len(words)
    /\ counts_best' = count_words_best(words)
    /\ cpc' = "returned"
    /\ UNCHANGED <<words, wi, counts>>
    /\ UNCHANGED <<regVars, groupVars, recVars, dedupeVars, tagVars, cacheVars, runVars>>

InitCount ==
    /\ CountInit
    /\ RegIdle /\ GroupIdle /\ RecIdle /\ DedupeIdle /\ TagIdle /\ CacheIdle /\ RunIdle
NextCount == CountStep \/ CountReturn
SpecCount == InitCount /\ [][NextCount]_vars

\* the number of occurrences of w among the first n elements of xs
Occurrences(xs, n, w) == Cardinality({i \in 1..n : xs[i] = w})

\* the mapping cnt has exactly the words among the first n of xs as keys and
\* maps each to its number of occurrences there
CountsAre(cnt, xs, n) ==
    /\ DOMAIN cnt = {xs[i] : i \in 1..n}
    /\ \A w \in WordSet : DictGet(cnt, w, 0) = Occurrences(xs, n, w)

\* C5: the mapping of count_words_fast and of count_words_best has exactly the
\* distinct elements of the input as keys and maps each to its number of
\* occurrences; a word never seen is absent (count 0), and no count decreases
\* as further elements are processed.
C5_CountsEqualOccurrences ==
    /\ [](CountsAre(counts, words, wi))
    /\ [](cpc = "returned" =>
             /\ CountsAre(counts, words, Len(words))
             /\ CountsAre(counts_best, words, Len(words)))
    /\ [][\A w \in WordSet : DictGet(counts', w, 0) >= DictGet(counts, w, 0)]_vars

C5_Witness ==
    /\ cpc = "returned"
    /\ Len(words) = 4
    /\ Cardinality(DOMAIN counts) = 2
    /\ \E w \in WordSet : DictGet(counts, w, 0) = 3 /\ DictGet(counts_best, w, 0) = 3

(***************************************************************************)
(* analyze_logs_fast / analyze_logs_alternative                            *)
(***************************************************************************)

Levels     == {"INFO", "ERROR"}
Messages   == {"m1", "m2"}
LogEntries == [level : Levels, message : Messages]

MaxEntries == 4    \* longest input list of the log grouping

\* a loop body that starts the group over at every entry
alf_body_overwrite(grouped, entry) == DictPut(grouped, entry.level, <<entry>>)

\* line 62: grouped[entry['level']].append(entry), grouped a defaultdict(list)
alf_body(grouped, entry) ==
    DictPut(grouped, entry.level, Append(DictGet(grouped, entry.level, <<>>), entry))

RECURSIVE alf_loop(_, _, _)
\* line 61: for entry in log_entries, from index i on
alf_loop(grouped, entries, i) ==
    IF i > Len(entries) THEN grouped
    ELSE alf_loop(alf_body(grouped, entries[i]), entries, i + 1)

\* line 63: dict(grouped), the same keys and values in a plain dict
dict_of(d) == [k \in DOMAIN d |-> d[k]]

analyze_logs_fast(entries) == dict_of(alf_loop(<<>>, entries, 1))

\* line 71: grouped.setdefault(entry['level'], []).append(entry)
ala_body(grouped, entry) ==
    LET with_default == IF entry.level \in DOMAIN grouped THEN grouped
                        ELSE DictPut(grouped, entry.level, <<>>)
    IN  [with_default EXCEPT ![entry.level] = Append(@, entry)]

RECURSIVE ala_loop(_, _, _)
\* line 70: for entry in log_entries, from index i on
ala_loop(grouped, entries, i) ==
    IF i > Len(entries) THEN grouped
    ELSE ala_loop(ala_body(grouped, entries[i]), entries, i + 1)

analyze_logs_alternative(entries) == ala_loop(<<>>, entries, 1)

GroupInit ==
    /\ log_entries \in SeqsUpTo(LogEntries, MaxEntries)
    /\ grouped_fast = None /\ grouped_alt = None /\ gpc = "input"

\* the caller groups the same entries with both functions
GroupCall ==
    /\ gpc = "input"
    /\ grouped_fast' = analyze_logs_fast(log_entries)
    /\ grouped_alt' = analyze_logs_alternative(log_entries)
    /\ gpc' = "done"
    /\ UNCHANGED log_entries
    /\ UNCHANGED <<regVars, countVars, recVars, dedupeVars, tagVars, cacheVars, runVars>>

InitGroup ==
    /\ GroupInit
    /\ RegIdle /\ CountIdle /\ RecIdle /\ DedupeIdle /\ TagIdle /\ CacheIdle /\ RunIdle
NextGroup == GroupCall
SpecGroup == InitGroup /\ [][NextGroup]_vars

\* the mapping g has a group for exactly the levels that occur in entries, and
\* each group is the entries of its level in input order
GroupsAre(g, entries) ==
    /\ DOMAIN g = {entries[i].level : i \in 1..Len(entries)}
    /\ \A lv \in DOMAIN g : g[lv] = SelectSeq(entries, LAMBDA e : e.level = lv)

\* C6: analyze_logs_fast and analyze_logs_alternative map each level to exactly
\* the entries of that level, in input order, and nothing else; a group exists
\* iff at least one entry has that level.
C6_GroupsInInputOrder ==
    gpc = "done" =>
        /\ GroupsAre(grouped_fast, log_entries)
        /\ GroupsAre(grouped_alt, log_entries)

C6_Witness ==
    /\ gpc = "done"
    /\ DOMAIN grouped_fast = Levels
    /\ Len(grouped_fast["ERROR"]) = 2
    /\ grouped_fast["ERROR"][1] # grouped_fast["ERROR"][2]
    /\ log_entries[1].level = "ERROR" /\ log_entries[2].level = "INFO"
    /\ grouped_alt = grouped_fast

(***************************************************************************)
(* PointOptimized / SensorReadingOptimized                                 *)
(***************************************************************************)

Classes == {"PointOptimized", "SensorReadingOptimized"}

\* lines 26 and 59: __slots__
Slots(c) ==
    IF c = "PointOptimized" THEN <<"x", "y", "z">>
    ELSE <<"timestamp", "temperature", "humidity", "pressure", "sensor_id">>

\* lines 28 and 61-62: the parameters of __init__ after self, none with a default
Params(c) ==
    IF c = "PointOptimized" THEN <<"x", "y", "z">>
    ELSE <<"timestamp", "temperature", "humidity", "pressure", "sensor_id">>

\* the attribute names a caller may try to assign: every slot of either class
\* and two names no class declares
AttrNames == ToSet(Slots("PointOptimized")) \cup ToSet(Slots("SensorReadingOptimized"))
                 \cup {"w", "colour"}

FieldValues == {1, 2}

MaxArgs == 6    \* most positional arguments of a constructor call

\* an assignment on a class without __slots__: the instance's __dict__ takes
\* any name
setattr_dynamic(c, obj, name, v) == [exc |-> None, obj |-> DictPut(obj, name, v)]

\* obj.name = v on an instance of a class with __slots__ and no __dict__: a
\* name outside __slots__ raises AttributeError and leaves the instance alone
setattr_slots(c, obj, name, v) ==
    IF name \in ToSet(Slots(c))
    THEN [exc |-> None, obj |-> DictPut(obj, name, v)]
    ELSE [exc |-> "AttributeError", obj |-> obj]

\* obj.name read: a name the instance does not hold raises AttributeError
getattr_slots(obj, name) ==
    IF name \in DOMAIN obj THEN Returned(obj[name]) ELSE Raised("AttributeError")

RECURSIVE init_body(_, _, _, _)
\* lines 29-31 and 63-67: self.<p> = <p> for each parameter, from the i-th on;
\* the first assignment that raises ends __init__
init_body(c, obj, args, i) ==
    IF i > Len(Params(c)) THEN [exc |-> None, obj |-> obj]
    ELSE LET r == setattr_slots(c, obj, Params(c)[i], args[i])
         IN  IF r.exc # None THEN r ELSE init_body(c, r.obj, args, i + 1)

\* cls(*args): the interpreter binds the positional arguments to the parameters
\* of __init__ and raises TypeError when their number differs; otherwise the
\* body of __init__ runs on a new instance with no slot assigned
construct(c, args) ==
    IF Len(args) # Len(Params(c)) THEN [exc |-> "TypeError", obj |-> None]
    ELSE init_body(c, <<>>, args, 1)

RecInit ==
    /\ cls = None /\ ctor_args = <<>> /\ inst = None /\ rec_err = None
    /\ set_name = None /\ inst_before = None /\ rpc = "new"

Construct ==
    /\ rpc = "new"
    /\ \E c \in Classes, args \in SeqsUpTo(FieldValues, MaxArgs) :
          LET r == construct(c, args)
          IN  /\ cls' = c
              /\ ctor_args' = args
              /\ rec_err' = r.exc
              /\ inst' = r.obj
              /\ rpc' = IF r.exc = None THEN "built" ELSE "failed"
    /\ UNCHANGED <<set_name, inst_before>>
    /\ UNCHANGED <<regVars, countVars, groupVars, dedupeVars, tagVars, cacheVars, runVars>>

SetAttr ==
    /\ rpc = "built"
    /\ \E name \in AttrNames, v \in FieldValues :
          LET r == setattr_slots(cls, inst, name, v)
          IN  /\ set_name' = name
              /\ inst_before' = inst
              /\ rec_err' = r.exc
              /\ inst' = r.obj
    /\ UNCHANGED <<cls, ctor_args, rpc>>
    /\ UNCHANGED <<regVars, countVars, groupVars, dedupeVars, tagVars, cacheVars, runVars>>

InitRecord ==
    /\ RecInit
    /\ RegIdle /\ CountIdle /\ GroupIdle /\ DedupeIdle /\ TagIdle /\ CacheIdle /\ RunIdle
NextRecord == Construct \/ SetAttr
SpecRecord == InitRecord /\ [][NextRecord]_vars

\* The claim about the record classes, for a constructor call with a wrong
\* number of arguments failing with the exception ctor_error
RecordContract(ctor_error) ==
    /\ rpc \in {"built", "failed"} =>
          (rpc = "failed" <=> Len(ctor_args) # Len(Slots(cls)))
    /\ rpc = "failed" => rec_err = ctor_error /\ inst = None
    /\ (rpc = "built" /\ set_name = None) =>
          /\ rec_err = None
          /\ \A i \in 1..Len(Slots(cls)) :
                getattr_slots(inst, Slots(cls)[i]) = Returned(ctor_args[i])
    /\ rpc = "built" => DOMAIN inst = ToSet(Slots(cls))
    /\ (rpc = "built" /\ set_name # None /\ set_name \notin ToSet(Slots(cls))) =>
          /\ rec_err = "AttributeError"
          /\ inst = inst_before

\* C4 as stated: constructing a PointOptimized or SensorReadingOptimized with a
\* wrong number of fields fails with SchemaError; with the right number it
\* succeeds and every declared field reads back the supplied value; assigning
\* a field outside the declared set fails with AttributeError and leaves the
\* declared field values unchanged.
C4_AsStated == RecordContract("SchemaError")

\* C4 as amended: the same, the failure of a constructor call with a wrong
\* number of fields being the interpreter's TypeError (the code defines no
\* SchemaError).
C4_RecordClosedSchema == RecordContract("TypeError")

C4_Witness ==
    /\ rpc = "built"
    /\ cls = "SensorReadingOptimized"
    /\ set_name = "x"
    /\ rec_err = "AttributeError"
    /\ inst = inst_before
    /\ \E i \in 1..Len(ctor_args) : inst[Slots(cls)[i]] # ctor_args[i]

(***************************************************************************)
(* run_all_examples.py                                                     *)
(***************************************************************************)

\* The first character of the pattern "0*.py" of line 40
Ch0 == 0

\* File names, as the tuples of the characters that decide their order and
\* whether "0*.py" matches them: 0..4 stand for '0'..'4' and 9 for 'r', so
\* <<0, 1>> is 01_membership_testing.py and <<9, 0>> a file such as
\* run_all_examples.py that the pattern does not match. All end in .py.
FileNames == {<<0, 1>>, <<0, 2>>, <<0, 3>>, <<0, 4>>, <<9, 0>>}

\* how exec_module of a demo ends: it returns, it raises an exception derived
\* from Exception, or it raises one that is not (sys.exit() raises SystemExit)
Outcomes == {"returned", "Exception", "SystemExit"}

\* a < b in the order of sorted() on the names
LexLess(a, b) ==
    \E i \in 1..Len(a) :
        /\ i <= Len(b)
        /\ \A j \in 1..(i - 1) : a[j] = b[j]
        /\ a[i] < b[i]

\* line 40: examples_dir.glob("0*.py") yields the names that start with '0',
\* in an order the file system decides
GlobOrders(dir) ==
    LET match == {f \in dir : f[1] = Ch0}
    IN  {g \in [1..Cardinality(match) -> match] :
            \A i, j \in 1..Cardinality(match) : i # j => g[i] # g[j]}

RECURSIVE insert_sorted(_, _)
\* x put before the first element of the sorted list s that is greater
insert_sorted(s, x) ==
    IF s = <<>> THEN <<x>>
    ELSE IF LexLess(x, Head(s)) THEN <<x>> \o s
    ELSE <<Head(s)>> \o insert_sorted(Tail(s), x)

RECURSIVE sort_from(_, _, _)
sort_from(acc, xs, i) ==
    IF i > Len(xs) THEN acc ELSE sort_from(insert_sorted(acc, xs[i]), xs, i + 1)

\* line 40: sorted(...)
sorted(xs) == sort_from(<<>>, xs, 1)

\* run_example without the try: whatever the demo raises leaves run_example
run_example_no_try(outcome) ==
    [error_printed |-> FALSE, propagates |-> outcome # "returned"]

\* lines 23-30: try: exec_module / except Exception: print the error /
\* finally: drop sys.modules["example"]. An exception that does not derive from
\* Exception passes the except clause and leaves run_example.
run_example(outcome) ==
    [error_printed |-> outcome = "Exception", propagates |-> outcome = "SystemExit"]

RunInit ==
    /\ dir_files \in SUBSET FileNames
    /\ example_files = <<>> /\ next_idx = 0 /\ ran = <<>> /\ reported = <<>>
    /\ outcomes = <<>> /\ summary = FALSE /\ empty_msg = FALSE /\ mpc = "start"

\* lines 37-49: main up to the for loop
MainStart ==
    /\ mpc = "start"
    /\ \E g \in GlobOrders(dir_files) :
          LET files == sorted(g)
          IN  /\ example_files' = files
              /\ IF files = <<>>
                 THEN /\ empty_msg' = TRUE
                      /\ mpc' = "done"
                      /\ next_idx' = next_idx
                 ELSE /\ empty_msg' = empty_msg
                      /\ mpc' = "loop"
                      /\ next_idx' = 1
    /\ UNCHANGED <<dir_files, ran, reported, outcomes, summary>>
    /\ UNCHANGED <<regVars, countVars, groupVars, recVars, dedupeVars, tagVars, cacheVars>>

\* lines 51-52: one iteration of the for loop, run_example(example_file). The
\* names glob yields end in .py, so spec_from_file_location finds a loader.
RunExample ==
    /\ mpc = "loop"
    /\ next_idx <= Len(example_files)
    /\ \E outcome \in Outcomes :
          LET f == example_files[next_idx]
              r == run_example(outcome)
          IN  /\ ran' = Append(ran, f)
              /\ outcomes' = Append(outcomes, outcome)
              /\ reported' = IF r.error_printed THEN Append(reported, f) ELSE reported
              /\ IF r.propagates
                 THEN mpc' = "aborted" /\ next_idx' = next_idx
                 ELSE mpc' = mpc /\ next_idx' = next_idx + 1
    /\ UNCHANGED <<dir_files, example_files, summary, empty_msg>>
    /\ UNCHANGED <<regVars, countVars, groupVars, recVars, dedupeVars, tagVars, cacheVars>>

\* lines 54-62: the summary after the loop
MainFinish ==
    /\ mpc = "loop"
    /\ next_idx > Len(example_files)
    /\ summary' = TRUE
    /\ mpc' = "done"
    /\ UNCHANGED <<dir_files, example_files, next_idx, ran, reported, outcomes, empty_msg>>
    /\ UNCHANGED <<regVars, countVars, groupVars, recVars, dedupeVars, tagVars, cacheVars>>

InitRunner ==
    /\ RunInit
    /\ RegIdle /\ CountIdle /\ GroupIdle /\ RecIdle /\ DedupeIdle /\ TagIdle /\ CacheIdle
NextRunner == MainStart \/ RunExample \/ MainFinish
SpecRunner == InitRunner /\ [][NextRunner]_vars

\* the demo modules of a directory: the names "0*.py" matches
Demos(dir) == {f \in dir : f[1] = Ch0}

\* the demo modules in lexical order
LexOrder(dir) ==
    CHOOSE s \in [1..Cardinality(Demos(dir)) -> Demos(dir)] :
        \A i, j \in 1..Cardinality(Demos(dir)) : i < j => LexLess(s[i], s[j])

IsPrefix(s, t) == Len(s) <= Len(t) /\ \A i \in 1..Len(s) : s[i] = t[i]

RunnerEnded == mpc \in {"done", "aborted"}

====
